---- MODULE Spec2Model ----
(***************************************************************************)
(* Model of lywsd03mmc-visu: the dispatch loop of main.rs (tokio::select!  *)
(* over the adapter stream and the SelectAll of device streams), the       *)
(* router handle_dev_changed_prop_evt, the per-sensor mpsc mailboxes and   *)
(* the SensorHandler::run workers of sample_handler.rs with the shared     *)
(* Arc<Mutex<Client>>.                                                     *)
(*                                                                         *)
(* Not modelled: timestamps (Utc::now), the be_verbose printing of samples,*)
(* the influx line protocol.  The external decoder BtHomeV2::decode is     *)
(* modelled at its boundary: bytes are either garbage (Err) or the         *)
(* encoding of an element list (Ok).                                       *)
(***************************************************************************)
EXTENDS Integers, Sequences, FiniteSets, TLC

(***************************************************************************)
(* Bounds of the model.                                                    *)
(***************************************************************************)
\* device events (PropertyChanged items) the loop takes from the streams
MaxDeviceEvents == 3
\* device streams the SelectAll set holds at one time
MaxStreams == 2
\* capacity of a mailbox; mpsc::channel(16) in main.rs:114, scaled down so
\* that a full mailbox is reached within MaxDeviceEvents events
MailboxCapacity == 2
\* elements of a decoded advertisement, where every element list is tried
MaxElements == 4

(***************************************************************************)
(* Program constants and the configuration.                                *)
(***************************************************************************)
WEATHER_SAMPLE_UUID_HEADER == 64722  \* 0x0000fcd2
\* first field of the uuid of some other advertised service
OtherUuidHeader == WEATHER_SAMPLE_UUID_HEADER + 1

\* Option<T>: None, or Some(x)
None == <<>>
Some(x) == <<x>>
Unwrap(o) == o[1]
\* the address slot of an adapter event that carries none
NoAddr == "-"

\* bluetooth addresses: A1 and A2 are configured sensors, AX is not
A1 == "A4:C1:38:00:00:01"
A2 == "A4:C1:38:00:00:02"
AX == "A4:C1:38:00:00:99"
Addresses == {A1, A2, AX}

\* values of app_config.sensors_names (address -> room): one configured
\* sensor, or a fleet of two
OneSensor == (A1 :> "kitchen")
TwoSensors == (A1 :> "kitchen") @@ (A2 :> "cellar")

(***************************************************************************)
(* Decoded elements, raw payloads and events of the environment.           *)
(***************************************************************************)
Elt(t, v) == [type |-> t, raw |-> v]

ElemsV1 == <<Elt("VoltageSmall", 3000)>>
ElemsV2 == <<Elt("VoltageSmall", 2900)>>
ElemsM1 == <<Elt("TemperatureSmall", 2000), Elt("Humidity", 5500), Elt("Battery", 90)>>
ElemsM2 == <<Elt("Battery", 89), Elt("Humidity", 5000), Elt("TemperatureSmall", 2100)>>
\* partial meteo data: neither Meteo nor Voltage
ElemsU == <<Elt("TemperatureSmall", 2000), Elt("PacketId", 7)>>

\* the element types try_from has an arm for, and one it has none for
ElementTypes ==
    {"TemperatureSmall", "Humidity", "Battery", "VoltageSmall", "PacketId"}
\* two raw values for each type try_from reads, one for the other
Elements ==
    {Elt(t, v) : t \in ElementTypes \ {"PacketId"}, v \in {1, 2}}
        \cup {Elt("PacketId", 7)}
\* every element list of at most MaxElements elements
ElementLists == UNION {[1..n -> Elements] : n \in 0..MaxElements}

\* raw service data bytes: the encoding of an element list, or garbage
Bytes(elems) == [valid |-> TRUE, elements |-> elems]
Garbage == [valid |-> FALSE, elements |-> <<>>]

\* one (uuid, raw_sample) entry of a service-data map
Entry(hdr, raw) == [uuid0 |-> hdr, raw_sample |-> raw]
H(elems) == Entry(WEATHER_SAMPLE_UUID_HEADER, Bytes(elems))
HBad == Entry(WEATHER_SAMPLE_UUID_HEADER, Garbage)
O(elems) == Entry(OtherUuidHeader, Bytes(elems))

\* DeviceProperty values; a ServiceData map is given as the sequence of its
\* entries in the order the HashMap iteration visits them
ServiceData(entries) == [prop |-> "ServiceData", service_data |-> entries]
Rssi == [prop |-> "Rssi", service_data |-> <<>>]

\* a Meteo entry ahead of the first Voltage entry, a failing entry between
PropMV == ServiceData(<<H(ElemsM1), HBad, H(ElemsV1)>>)
\* failing entries first and last, another service, three decodable entries
PropVMU ==
    ServiceData(<<HBad, H(ElemsV2), O(ElemsV1), H(ElemsM2), H(ElemsU), HBad>>)

\* what a device stream yields when one sensor is followed in detail
DeviceProperties == {Rssi, PropMV, PropVMU}
\* what a device stream yields when a fleet is followed
FleetProperties == {PropVMU}

AdapterEvents ==
    [kind : {"DeviceAdded", "DeviceRemoved"}, addr : Addresses]
        \cup {[kind |-> "PropertyChanged", addr |-> NoAddr]}

(***************************************************************************)
(* Pure functions of sample_handler.rs and the decoder boundary.           *)
(***************************************************************************)
\* BtHomeV2::decode(raw_sample): Ok(element list) or Err
decode(raw) ==
    IF raw.valid THEN [ok |-> TRUE, elements |-> raw.elements]
    ELSE [ok |-> FALSE, elements |-> <<>>]

\* 1e-2 * f32::from(x), 1e-3 * f32::from(x): the value x / den, kept exact
Scaled(x, den) == [num |-> x, den |-> den]

\* the four Option locals of try_from before the scan
NoFields ==
    [temperature |-> None, humidity |-> None,
     battery_level |-> None, battery_voltage |-> None]

\* one iteration of `for element in value.elements`
ScanElement(acc, element) ==
    CASE element.type = "TemperatureSmall" ->
            [acc EXCEPT !.temperature = Some(Scaled(element.raw, 100))]
      [] element.type = "Humidity" ->
            [acc EXCEPT !.humidity = Some(Scaled(element.raw, 100))]
      [] element.type = "Battery" ->
            [acc EXCEPT !.battery_level = Some(element.raw)]
      [] element.type = "VoltageSmall" ->
            [acc EXCEPT !.battery_voltage = Some(Scaled(element.raw, 1000))]
      [] OTHER -> acc

RECURSIVE ScanElements(_, _)
ScanElements(acc, elements) ==
    IF elements = <<>> THEN acc
    ELSE ScanElements(ScanElement(acc, Head(elements)), Tail(elements))

\* mutant: the voltage is looked at before the meteo fields
try_from_voltage_first(elements) ==
    LET f == ScanElements(NoFields, elements) IN
    IF f.battery_voltage # None
    THEN [tag |-> "Voltage", battery_voltage |-> Unwrap(f.battery_voltage)]
    ELSE IF f.temperature # None /\ f.humidity # None /\ f.battery_level # None
    THEN [tag |-> "Meteo", temperature |-> Unwrap(f.temperature),
          humidity |-> Unwrap(f.humidity),
          battery_level |-> Unwrap(f.battery_level)]
    ELSE [tag |-> "Err"]

\* TryFrom<BtHomeV2> for BtHomeV2Sample
try_from(elements) ==
    LET f == ScanElements(NoFields, elements) IN
    IF f.temperature # None /\ f.humidity # None /\ f.battery_level # None
    THEN [tag |-> "Meteo", temperature |-> Unwrap(f.temperature),
          humidity |-> Unwrap(f.humidity),
          battery_level |-> Unwrap(f.battery_level)]
    ELSE IF f.battery_voltage # None
    THEN [tag |-> "Voltage", battery_voltage |-> Unwrap(f.battery_voltage)]
    ELSE [tag |-> "Err"]

\* mutant: temperature and humidity take each other's place
SampleFromSwapped(meteo, voltage, sensor_addr, room) ==
    [sensor_addr |-> sensor_addr,
     room |-> room,
     temperature |-> meteo.humidity,
     humidity |-> meteo.temperature,
     battery |-> [voltage |-> voltage.battery_voltage,
                  level |-> meteo.battery_level]]

\* From<(MeteoSample, VoltageSample, DateTime, Address, &str)> for Sample
SampleFrom(meteo, voltage, sensor_addr, room) ==
    [sensor_addr |-> sensor_addr,
     room |-> room,
     temperature |-> meteo.temperature,
     humidity |-> meteo.humidity,
     battery |-> [voltage |-> voltage.battery_voltage,
                  level |-> meteo.battery_level]]

\* From<&Sample> for InfluxPoint
InfluxPointFrom(measurement) ==
    [sensor |-> measurement.sensor_addr,
     room |-> measurement.room,
     temperature |-> measurement.temperature,
     humidity |-> measurement.humidity,
     battery_voltage |-> measurement.battery.voltage,
     battery_level |-> measurement.battery.level]

(***************************************************************************)
(* State.                                                                  *)
(***************************************************************************)
VARIABLES
    sensors_names,  \* app_config.sensors_names
    dry_run,        \* app_config.dry_run: influx_client is None iff TRUE
    mainPc,         \* position of main: select, adapter, send, routed, done, failed
    adapter_evt,    \* the adapter event handle_adapter_evt is working on
    cur,            \* the device event being routed: [addr, prop, idx]
    attempts,       \* sender.send calls of the event being routed, in order
    adapterEnded,   \* the adapter stream has no more items
    device_events,  \* SelectAll: per address, the queued items of each of its streams
    nDeviceEvents,  \* items taken from the device streams so far
    mailbox,        \* per sensor, the content of its mpsc channel
    wpc,            \* per sensor, position of its worker: recv, lock, write, dead, cancelled
    last_voltage,   \* per sensor, SensorHandler.last_voltage
    sample,         \* per sensor, the Sample being written
    holder,         \* owner of the MutexGuard on the client
    waitq,          \* workers waiting in lock().await, in arrival order
    forwarded,      \* per sensor, every message a send put in its mailbox
    consumed,       \* per sensor, every message recv returned to its worker
    records,        \* per sensor, every Sample the worker constructed
    written,        \* per sensor, every point the sink accepted
    dropped         \* per sensor, number of sends that failed on a closed channel

cfgVars == <<sensors_names, dry_run>>
mainVars == <<mainPc, adapter_evt, cur, attempts>>
envVars == <<adapterEnded, nDeviceEvents>>
workerVars == <<wpc, last_voltage, sample, holder, waitq>>
histVars == <<forwarded, consumed, records, written, dropped>>
vars == <<cfgVars, mainVars, envVars, device_events, mailbox, workerVars, histVars>>

Sensors == DOMAIN sensors_names

\* mutant: a client is set up whatever dry_run says
setup_influx_connection_always(dry) == Some("client")

\* setup_influx_connection: None in dry-run, else Some(Arc<Mutex<Client>>)
setup_influx_connection(dry) == IF dry THEN None ELSE Some("client")
influx_client == setup_influx_connection(dry_run)

MainRunning == mainPc \notin {"done", "failed"}
\* the Receiver of a sensor still exists
ReceiverAlive(a) == wpc[a] \in {"recv", "lock", "write"}

\* mutant: a worker that starts with a default voltage instead of none
new_last_voltage_preset == Some([battery_voltage |-> Scaled(0, 1000)])

\* SensorHandler::new: last_voltage: None
new_last_voltage == None

\* main up to the loop, for a configuration: the channels and the workers
\* (SensorHandler::new sets last_voltage to None), an empty SelectAll, the
\* adapter stream
InitWith(names) ==
    /\ sensors_names = names
    /\ dry_run \in BOOLEAN
    /\ mainPc = "select"
    /\ adapter_evt = None
    /\ cur = None
    /\ attempts = <<>>
    /\ adapterEnded = FALSE
    /\ device_events = [a \in Addresses |-> <<>>]
    /\ nDeviceEvents = 0
    /\ mailbox = [a \in DOMAIN names |-> <<>>]
    /\ wpc = [a \in DOMAIN names |-> "recv"]
    /\ last_voltage = [a \in DOMAIN names |-> new_last_voltage]
    /\ sample = [a \in DOMAIN names |-> None]
    /\ holder = None
    /\ waitq = <<>>
    /\ forwarded = [a \in DOMAIN names |-> <<>>]
    /\ consumed = [a \in DOMAIN names |-> <<>>]
    /\ records = [a \in DOMAIN names |-> <<>>]
    /\ written = [a \in DOMAIN names |-> <<>>]
    /\ dropped = [a \in DOMAIN names |-> 0]

Init == InitWith(OneSensor)
InitFleet == InitWith(TwoSensors)

(***************************************************************************)
(* The environment.  A stream's next item is decided when the select polls *)
(* the stream: what a stream would yield later is not observable before.   *)
(***************************************************************************)
\* mutant: every added device is subscribed to, configured or not
OpensStreamAny(e) == e.kind = "DeviceAdded"

\* handle_adapter_evt returns Ok(Some(stream)): true exactly for DeviceAdded
\* of a configured address (when opening the stream succeeds)
OpensStream(e) == e.kind = "DeviceAdded" /\ e.addr \in DOMAIN sensors_names

RECURSIVE SumLen(_, _)
SumLen(f, S) ==
    IF S = {} THEN 0
    ELSE LET a == CHOOSE x \in S : TRUE IN Len(f[a]) + SumLen(f, S \ {a})

\* streams in the SelectAll set
NumStreams == SumLen(device_events, DOMAIN device_events)

\* the adapter stream ends: next() returns None from now on
AdapterEnd ==
    /\ mainPc = "select"
    /\ ~adapterEnded
    /\ adapterEnded' = TRUE
    /\ UNCHANGED <<cfgVars, mainVars, nDeviceEvents, device_events, mailbox,
                   workerVars, histVars>>

RemoveAt(seq, i) == SubSeq(seq, 1, i - 1) \o SubSeq(seq, i + 1, Len(seq))

\* a device stream that has yielded all its items ends; SelectAll drops it
StreamEnd(a, i) ==
    /\ mainPc = "select"
    /\ i \in DOMAIN device_events[a]
    /\ device_events[a][i] = <<>>
    /\ device_events' = [device_events EXCEPT ![a] = RemoveAt(@, i)]
    /\ UNCHANGED <<cfgVars, mainVars, envVars, mailbox, workerVars, histVars>>

(***************************************************************************)
(* main: teardown, the select loop, handle_adapter_evt.                    *)
(***************************************************************************)
\* main returns: the runtime is dropped, the spawned workers are cancelled
\* and the guard, if held, goes with its task
Teardown ==
    /\ wpc' = [a \in Sensors |-> IF wpc[a] = "dead" THEN "dead" ELSE "cancelled"]
    /\ holder' = None
    /\ waitq' = <<>>
    /\ sample' = [a \in Sensors |-> None]
    /\ UNCHANGED last_voltage

\* mutant: the next() future that is dropped takes a ready item with it
DroppedNextLosesItem(streams) ==
    IF \E a \in DOMAIN streams : \E i \in DOMAIN streams[a] : streams[a][i] # <<>>
    THEN LET a == CHOOSE x \in DOMAIN streams :
                      \E i \in DOMAIN streams[x] : streams[x][i] # <<>>
             i == CHOOSE j \in DOMAIN streams[a] : streams[a][j] # <<>>
         IN [streams EXCEPT ![a][i] = Tail(@)]
    ELSE streams

\* select! drops the device_events.next() future of the branch it does not
\* serve: next() holds no item, the streams are as they were
DroppedNext(streams) == streams

\* select!: the branch `Some(adapter_evt) = adapter_events.next()` with the
\* event e the adapter stream yields
SelectAdapter(e) ==
    /\ mainPc = "select"
    /\ ~adapterEnded
    /\ OpensStream(e) => NumStreams < MaxStreams
    /\ adapter_evt' = Some(e)
    /\ mainPc' = "adapter"
    /\ device_events' = DroppedNext(device_events)
    /\ UNCHANGED <<cfgVars, cur, attempts, envVars, mailbox, workerVars, histVars>>

\* device_events.push(new_dev_evts)
Push(streams, addr) == [streams EXCEPT ![addr] = Append(@, <<>>)]

\* mutant: the removal of a device drops its subscriptions
AfterAdapterEvtDeregisters(streams, e) ==
    IF OpensStream(e) THEN Push(streams, e.addr)
    ELSE IF e.kind = "DeviceRemoved" /\ e.addr \in DOMAIN streams
    THEN [streams EXCEPT ![e.addr] = <<>>]
    ELSE streams

\* `if let Some(new_dev_evts) = handle_adapter_evt(..)`: the new stream is
\* pushed; on Ok(None) the set is left alone
AfterAdapterEvt(streams, e) ==
    IF OpensStream(e) THEN Push(streams, e.addr) ELSE streams

\* handle_adapter_evt returned Ok
HandleAdapterEvtOk ==
    /\ mainPc = "adapter"
    /\ device_events' = AfterAdapterEvt(device_events, Unwrap(adapter_evt))
    /\ adapter_evt' = None
    /\ mainPc' = "select"
    /\ UNCHANGED <<cfgVars, cur, attempts, envVars, mailbox, workerVars, histVars>>

\* adapter.device(addr)? or device.events().await? fails: `?` returns from main
HandleAdapterEvtErr ==
    /\ mainPc = "adapter"
    /\ OpensStream(Unwrap(adapter_evt))
    /\ mainPc' = "failed"
    /\ Teardown
    /\ UNCHANGED <<cfgVars, adapter_evt, cur, attempts, envVars, device_events,
                   mailbox, histVars>>

\* mutant: the loop ends with the adapter stream, whatever the device streams
AdapterExhausted == adapterEnded

\* adapter_events.next() and device_events.next() both return None
BothExhausted ==
    /\ adapterEnded
    /\ \A a \in DOMAIN device_events : device_events[a] = <<>>

\* select!: `else => break`, then Ok(())
Break ==
    /\ mainPc = "select"
    /\ BothExhausted
    /\ mainPc' = "done"
    /\ Teardown
    /\ UNCHANGED <<cfgVars, adapter_evt, cur, attempts, envVars, device_events,
                   mailbox, histVars>>

(***************************************************************************)
(* main: the device branch and handle_dev_changed_prop_evt.                *)
(***************************************************************************)
\* channels: one Sender per configured sensor, inserted before the loop
channels == DOMAIN sensors_names

\* `if let DeviceProperty::ServiceData(service_data) = changed_property`:
\* the entries the for loop visits
EntriesOf(prop) == IF prop.prop = "ServiceData" THEN prop.service_data ELSE <<>>

\* mutant: the uuid of an entry is not looked at
HasHeaderAny(entry) == TRUE

\* uuid.as_fields().0 == WEATHER_SAMPLE_UUID_HEADER
HasHeader(entry) == entry.uuid0 = WEATHER_SAMPLE_UUID_HEADER

\* mutant: a decode error ends the loop over the entries
AfterDecodeErrAbort(entries, i) == Len(entries) + 1

RECURSIVE NextSend(_, _)
RECURSIVE AfterDecodeErr(_, _)

\* Err(e) => println!("{e}"): the loop goes on with the entry after i
AfterDecodeErr(entries, i) == NextSend(entries, i + 1)

\* the for loop from entry i up to its next sender.send: the index of the
\* first entry from i on that has the header and decodes, Len + 1 if the loop
\* ends without one
NextSend(entries, i) ==
    IF i > Len(entries) THEN i
    ELSE IF ~HasHeader(entries[i]) THEN NextSend(entries, i + 1)
    ELSE IF decode(entries[i].raw_sample).ok THEN i
    ELSE AfterDecodeErr(entries, i)

\* mutant: the sender of another sensor is looked up
CurAddrOther ==
    IF \E b \in DOMAIN sensors_names : b # Unwrap(cur).addr
    THEN CHOOSE b \in DOMAIN sensors_names : b # Unwrap(cur).addr
    ELSE Unwrap(cur).addr

\* channels.get_mut(&addr): the address the event is tagged with
CurAddr == Unwrap(cur).addr
CurEntries == EntriesOf(Unwrap(cur).prop)
\* the message sender.send(bthome) is called with
CurMsg == decode(CurEntries[Unwrap(cur).idx].raw_sample).elements

\* where main is once the loop stands at index i
PcAt(entries, i) == IF i <= Len(entries) THEN "send" ELSE "routed"

\* stream i of device a yields prop: the copy of an advertisement queued in
\* it, or a new advertisement, which every other stream of a gets a copy of
Yield(streams, a, i, prop) ==
    IF streams[a][i] # <<>>
    THEN [streams EXCEPT ![a][i] = Tail(@)]
    ELSE [streams EXCEPT ![a] =
            [j \in DOMAIN @ |-> IF j = i THEN @[j] ELSE Append(@[j], prop)]]

\* select!: the branch `Some((DeviceEvent::PropertyChanged(prop), addr)) =
\* device_events.next()`, then handle_dev_changed_prop_evt up to its first send
SelectDevice(a, i, prop) ==
    /\ mainPc = "select"
    /\ i \in DOMAIN device_events[a]
    /\ device_events[a][i] # <<>> => prop = Head(device_events[a][i])
    /\ nDeviceEvents < MaxDeviceEvents
    /\ nDeviceEvents' = nDeviceEvents + 1
    /\ device_events' = Yield(device_events, a, i, prop)
    /\ LET first == NextSend(EntriesOf(prop), 1)
       IN IF a \in channels
          THEN /\ cur' = Some([addr |-> a, prop |-> prop, idx |-> first])
               /\ mainPc' = PcAt(EntriesOf(prop), first)
          ELSE /\ cur' = None
               /\ mainPc' = "select"
    /\ attempts' = <<>>
    /\ UNCHANGED <<cfgVars, adapter_evt, adapterEnded, mailbox, workerVars,
                   histVars>>

\* the send is over: the loop runs on to its next send or to its end
AfterSend ==
    LET next == NextSend(CurEntries, Unwrap(cur).idx + 1) IN
    /\ cur' = Some([Unwrap(cur) EXCEPT !.idx = next])
    /\ mainPc' = PcAt(CurEntries, next)

\* mutant: the channel takes a message at its front
EnqueueFront(q, m) == <<m>> \o q

\* the channel takes a message at its back
Enqueue(q, m) == Append(q, m)

\* sender.send(bthome).await completes with Ok: the channel had a free slot
SendOk ==
    /\ mainPc = "send"
    /\ ReceiverAlive(CurAddr)
    /\ Len(mailbox[CurAddr]) < MailboxCapacity
    /\ mailbox' = [mailbox EXCEPT ![CurAddr] = Enqueue(@, CurMsg)]
    /\ forwarded' = [forwarded EXCEPT ![CurAddr] = Append(@, CurMsg)]
    /\ attempts' = Append(attempts, [msg |-> CurMsg, ok |-> TRUE])
    /\ AfterSend
    /\ UNCHANGED <<cfgVars, adapter_evt, envVars, device_events, workerVars,
                   consumed, records, written, dropped>>

\* sender.send(bthome).await completes with Err: the receiver is gone; the
\* error is printed and the loop goes on
SendClosed ==
    /\ mainPc = "send"
    /\ ~ReceiverAlive(CurAddr)
    /\ dropped' = [dropped EXCEPT ![CurAddr] = @ + 1]
    /\ attempts' = Append(attempts, [msg |-> CurMsg, ok |-> FALSE])
    /\ AfterSend
    /\ UNCHANGED <<cfgVars, adapter_evt, envVars, device_events, mailbox,
                   workerVars, forwarded, consumed, records, written>>

\* handle_dev_changed_prop_evt returns: back to the select
RouteDone ==
    /\ mainPc = "routed"
    /\ mainPc' = "select"
    /\ cur' = None
    /\ attempts' = <<>>
    /\ UNCHANGED <<cfgVars, adapter_evt, envVars, device_events, mailbox,
                   workerVars, histVars>>

(***************************************************************************)
(* SensorHandler::run.                                                     *)
(***************************************************************************)
\* mutant: the first voltage is kept, later ones are ignored
LatchKeepsFirst(last, smp) ==
    IF smp.tag = "Voltage" /\ last = None
    THEN Some([battery_voltage |-> smp.battery_voltage])
    ELSE last

\* Ok(BtHomeV2Sample::Voltage(voltage)) => self.last_voltage = Some(voltage);
\* no other arm assigns last_voltage
Latch(last, smp) ==
    IF smp.tag = "Voltage" THEN Some([battery_voltage |-> smp.battery_voltage])
    ELSE last

\* Ok(BtHomeV2Sample::Meteo(meteo)) with `if let Some(voltage) = self.last_voltage`
Pairs(last, smp) == smp.tag = "Meteo" /\ last # None

\* mutant: lock() returns at once whoever holds the guard
LockFreeUnchecked == TRUE

\* lock() on the tokio Mutex returns at once: it is free and nobody waits
LockFree == holder = None /\ waitq = <<>>

\* self.recv.recv().await returns Some(msg); the match up to the next await:
\* the lock when another worker has it, else the query
Recv(a) ==
    /\ wpc[a] = "recv"
    /\ mailbox[a] # <<>>
    /\ LET msg == Head(mailbox[a])
           smp == try_from(msg)
           s == SampleFrom(smp, Unwrap(last_voltage[a]), a, sensors_names[a])
       IN /\ mailbox' = [mailbox EXCEPT ![a] = Tail(@)]
          /\ consumed' = [consumed EXCEPT ![a] = Append(@, msg)]
          /\ last_voltage' = [last_voltage EXCEPT ![a] = Latch(@, smp)]
          /\ IF Pairs(last_voltage[a], smp)
             THEN /\ records' = [records EXCEPT ![a] = Append(@, s)]
                  /\ IF influx_client # None
                     THEN /\ sample' = [sample EXCEPT ![a] = Some(s)]
                          /\ IF LockFree
                             THEN /\ wpc' = [wpc EXCEPT ![a] = "write"]
                                  /\ holder' = Some(a)
                                  /\ waitq' = waitq
                             ELSE /\ wpc' = [wpc EXCEPT ![a] = "lock"]
                                  /\ holder' = holder
                                  /\ waitq' = Append(waitq, a)
                     ELSE UNCHANGED <<wpc, sample, waitq, holder>>
             ELSE UNCHANGED <<records, wpc, sample, waitq, holder>>
    /\ UNCHANGED <<cfgVars, mainVars, envVars, device_events,
                   forwarded, written, dropped>>

\* the Mutex hands the guard to the first waiter, once it is free
CanAcquire(a) == holder = None /\ waitq # <<>> /\ Head(waitq) = a

\* influx_client.lock().await returns the guard to a worker that waited
Acquire(a) ==
    /\ wpc[a] = "lock"
    /\ CanAcquire(a)
    /\ holder' = Some(a)
    /\ waitq' = Tail(waitq)
    /\ wpc' = [wpc EXCEPT ![a] = "write"]
    /\ UNCHANGED <<cfgVars, mainVars, envVars, device_events, mailbox,
                   last_voltage, sample, histVars>>

\* the guard is dropped: at the end of the block, or by the unwinding
Release(h, a) == IF h = Some(a) THEN None ELSE h

\* influx_client.query(query).await is Ok: unwrap passes, the guard is dropped
WriteOk(a) ==
    /\ wpc[a] = "write"
    /\ written' = [written EXCEPT ![a] = Append(@, InfluxPointFrom(Unwrap(sample[a])))]
    /\ holder' = Release(holder, a)
    /\ sample' = [sample EXCEPT ![a] = None]
    /\ wpc' = [wpc EXCEPT ![a] = "recv"]
    /\ UNCHANGED <<cfgVars, mainVars, envVars, device_events, mailbox,
                   last_voltage, waitq, forwarded, consumed, records, dropped>>

\* mutant: the guard of a worker that panics is never dropped
UnwindGuardLeaked(h, a) == h

\* the panic of unwrap unwinds the task: the guard is dropped on the way
UnwindGuard(h, a) == Release(h, a)

\* influx_client.query(query).await is Err: unwrap panics, the task unwinds,
\* dropping the guard and the Receiver (the queued messages go with it)
WriteFail(a) ==
    /\ wpc[a] = "write"
    /\ holder' = UnwindGuard(holder, a)
    /\ sample' = [sample EXCEPT ![a] = None]
    /\ wpc' = [wpc EXCEPT ![a] = "dead"]
    /\ mailbox' = [mailbox EXCEPT ![a] = <<>>]
    /\ UNCHANGED <<cfgVars, mainVars, envVars, device_events, last_voltage,
                   waitq, histVars>>

(***************************************************************************)
(* The system: one sensor followed in detail (Spec), a fleet (SpecFleet).  *)
(***************************************************************************)
\* with one worker the Mutex is never contended: lock() returns at once
Next ==
    \/ AdapterEnd
    \/ \E a \in DOMAIN device_events, i \in 1..MaxStreams : StreamEnd(a, i)
    \/ \E e \in AdapterEvents : SelectAdapter(e)
    \/ HandleAdapterEvtOk
    \/ HandleAdapterEvtErr
    \/ \E a \in DOMAIN device_events, i \in 1..MaxStreams,
          prop \in DeviceProperties : SelectDevice(a, i, prop)
    \/ SendOk
    \/ SendClosed
    \/ RouteDone
    \/ Break
    \/ \E a \in Sensors : Recv(a)
    \/ \E a \in Sensors : WriteOk(a)
    \/ \E a \in Sensors : WriteFail(a)

Spec == Init /\ [][Next]_vars

NextFleet ==
    \/ AdapterEnd
    \/ \E a \in DOMAIN device_events, i \in 1..MaxStreams : StreamEnd(a, i)
    \/ \E e \in AdapterEvents : SelectAdapter(e)
    \/ HandleAdapterEvtOk
    \/ HandleAdapterEvtErr
    \/ \E a \in DOMAIN device_events, i \in 1..MaxStreams,
          prop \in FleetProperties : SelectDevice(a, i, prop)
    \/ SendOk
    \/ SendClosed
    \/ RouteDone
    \/ Break
    \/ \E a \in Sensors : Recv(a)
    \/ \E a \in Sensors : Acquire(a)
    \/ \E a \in Sensors : WriteOk(a)
    \/ \E a \in Sensors : WriteFail(a)

SpecFleet == InitFleet /\ [][NextFleet]_vars

(***************************************************************************)
(* The fleet when nothing fails (SpecLive): every sink write succeeds and  *)
(* every stream opens, so no worker dies and no send finds its channel     *)
(* closed.  main and the workers are tasks of one runtime: a               *)
(* task that can go on is run, so each of their steps is weakly fair;      *)
(* what the streams yield, and when, is up to the environment.             *)
(***************************************************************************)
NextLive ==
    \/ AdapterEnd
    \/ \E a \in DOMAIN device_events, i \in 1..MaxStreams : StreamEnd(a, i)
    \/ \E e \in AdapterEvents : SelectAdapter(e)
    \/ HandleAdapterEvtOk
    \/ \E a \in DOMAIN device_events, i \in 1..MaxStreams,
          prop \in FleetProperties : SelectDevice(a, i, prop)
    \/ SendOk
    \/ RouteDone
    \/ Break
    \/ \E a \in Sensors : Recv(a)
    \/ \E a \in Sensors : Acquire(a)
    \/ \E a \in Sensors : WriteOk(a)

FairMain ==
    /\ WF_vars(HandleAdapterEvtOk)
    /\ WF_vars(SendOk)
    /\ WF_vars(RouteDone)
    /\ WF_vars(Break)

FairWorkers ==
    \A a \in DOMAIN TwoSensors :
        WF_vars(Recv(a)) /\ WF_vars(Acquire(a)) /\ WF_vars(WriteOk(a))

SpecLive == InitFleet /\ [][NextLive]_vars /\ FairMain /\ FairWorkers

(***************************************************************************)
(* The worker of one sensor classifying any element list (SpecClassify):   *)
(* its mailbox holds a Voltage message and then an arbitrary message, and  *)
(* the worker receives them.                                               *)
(***************************************************************************)
InitClassify ==
    /\ sensors_names = OneSensor
    /\ dry_run \in BOOLEAN
    /\ mainPc = "select"
    /\ adapter_evt = None
    /\ cur = None
    /\ attempts = <<>>
    /\ adapterEnded = FALSE
    /\ device_events = [a \in Addresses |-> IF a = A1 THEN << <<>> >> ELSE <<>>]
    /\ nDeviceEvents = 2
    /\ \E elems \in ElementLists :
          /\ mailbox = (A1 :> <<ElemsV1, elems>>)
          /\ forwarded = (A1 :> <<ElemsV1, elems>>)
    /\ wpc = (A1 :> "recv")
    /\ last_voltage = (A1 :> new_last_voltage)
    /\ sample = (A1 :> None)
    /\ holder = None
    /\ waitq = <<>>
    /\ consumed = (A1 :> <<>>)
    /\ records = (A1 :> <<>>)
    /\ written = (A1 :> <<>>)
    /\ dropped = (A1 :> 0)

NextClassify ==
    \/ \E a \in Sensors : Recv(a)
    \/ \E a \in Sensors : WriteOk(a)

SpecClassify == InitClassify /\ [][NextClassify]_vars

(***************************************************************************)
(* Reference definitions for the properties, written from the data model:  *)
(* what a message is, by the elements it holds.                            *)
(***************************************************************************)
HasType(elems, t) == \E i \in DOMAIN elems : elems[i].type = t
\* raw value of the last element of type t
LastRaw(elems, t) ==
    elems[CHOOSE i \in DOMAIN elems :
            /\ elems[i].type = t
            /\ \A j \in DOMAIN elems : elems[j].type = t => j <= i].raw
IsMeteoMsg(elems) ==
    HasType(elems, "TemperatureSmall") /\ HasType(elems, "Humidity")
        /\ HasType(elems, "Battery")
IsVoltageMsg(elems) == ~IsMeteoMsg(elems) /\ HasType(elems, "VoltageSmall")

\* the value raw / den
Ratio(raw, den) == [num |-> raw, den |-> den]

\* volts of the last Voltage message of msgs, None when it holds none
RECURSIVE LatestVoltage(_)
LatestVoltage(msgs) ==
    IF msgs = <<>> THEN None
    ELSE LET m == msgs[Len(msgs)] IN
         IF IsVoltageMsg(m) THEN Some(Ratio(LastRaw(m, "VoltageSmall"), 1000))
         ELSE LatestVoltage(SubSeq(msgs, 1, Len(msgs) - 1))

\* the record a Meteo message makes with the volts v, for sensor a
RecordOf(a, m, v) ==
    [sensor_addr |-> a,
     room |-> sensors_names[a],
     temperature |-> Ratio(LastRaw(m, "TemperatureSmall"), 100),
     humidity |-> Ratio(LastRaw(m, "Humidity"), 100),
     battery |-> [voltage |-> v, level |-> LastRaw(m, "Battery")]]

\* the records of sensor a for the messages msgs: one per Meteo message that
\* has a Voltage message before it, in order
RECURSIVE ExpectedRecords(_, _)
ExpectedRecords(a, msgs) ==
    IF msgs = <<>> THEN <<>>
    ELSE LET before == SubSeq(msgs, 1, Len(msgs) - 1)
             m == msgs[Len(msgs)]
         IN IF IsMeteoMsg(m) /\ LatestVoltage(before) # None
            THEN Append(ExpectedRecords(a, before),
                        RecordOf(a, m, Unwrap(LatestVoltage(before))))
            ELSE ExpectedRecords(a, before)

\* the point the sink gets for a record
PointOf(r) ==
    [sensor |-> r.sensor_addr, room |-> r.room, temperature |-> r.temperature,
     humidity |-> r.humidity, battery_voltage |-> r.battery.voltage,
     battery_level |-> r.battery.level]
PointsOf(rs) == [i \in DOMAIN rs |-> PointOf(rs[i])]
Front(seq) == SubSeq(seq, 1, Len(seq) - 1)

(***************************************************************************)
(* C1: no record for a Meteo sample received before the first Voltage      *)
(* sample: as long as a worker has received no Voltage sample, its         *)
(* last_voltage is None, it has built no record, the sink has got none     *)
(* from it and it is at no write.                                          *)
(***************************************************************************)
NoVoltageYet(a) == \A i \in DOMAIN consumed[a] : ~IsVoltageMsg(consumed[a][i])

C1_NoRecordBeforeFirstVoltage ==
    \A a \in Sensors :
        NoVoltageYet(a) =>
            /\ last_voltage[a] = None
            /\ records[a] = <<>>
            /\ written[a] = <<>>
            /\ sample[a] = None
            /\ wpc[a] \notin {"lock", "write", "dead"}

\* a worker has received a Meteo sample and no Voltage sample
C1_Witness ==
    \E a \in Sensors :
        /\ NoVoltageYet(a)
        /\ \E i \in DOMAIN consumed[a] : IsMeteoMsg(consumed[a][i])

(***************************************************************************)
(* C2: the records of a worker are, in order, one per Meteo sample it      *)
(* received after its first Voltage sample, each with that sample's        *)
(* temperature, humidity and battery level and the worker's address and    *)
(* room; Voltage and unrecognized samples make none.  In Live mode each    *)
(* record is one sink write: all are written when the worker is back at    *)
(* recv, all but the last while it is at the lock or in the write (or died *)
(* of it); in dry-run nothing is written.                                  *)
(***************************************************************************)
C2_RecordsAreMeteoAfterVoltage ==
    \A a \in Sensors :
        /\ records[a] = ExpectedRecords(a, consumed[a])
        /\ dry_run => written[a] = <<>>
        /\ (~dry_run /\ wpc[a] = "recv") => written[a] = PointsOf(records[a])
        /\ (~dry_run /\ wpc[a] \in {"lock", "write"}) =>
              /\ records[a] # <<>>
              /\ written[a] = PointsOf(Front(records[a]))
              /\ sample[a] = Some(records[a][Len(records[a])])
        /\ (~dry_run /\ wpc[a] = "dead") =>
              /\ records[a] # <<>>
              /\ written[a] = PointsOf(Front(records[a]))

\* a live worker is back at recv after two writes, having also received
\* samples that made no record
C2_Witness ==
    \E a \in Sensors :
        /\ ~dry_run
        /\ wpc[a] = "recv"
        /\ Len(written[a]) >= 2
        /\ Len(consumed[a]) > Len(records[a]) + 1
        /\ written[a][1] # written[a][2]

(***************************************************************************)
(* C3: the battery voltage of a record is the latest Voltage sample the    *)
(* worker had received when it processed the Meteo sample; last_voltage is *)
(* always the latest Voltage sample received, and once set it is never     *)
(* cleared.                                                                *)
(***************************************************************************)
C3_LatchIsLatest ==
    \A a \in Sensors :
        /\ LatestVoltage(consumed[a]) = None => last_voltage[a] = None
        /\ LatestVoltage(consumed[a]) # None =>
              last_voltage[a] =
                  Some([battery_voltage |-> Unwrap(LatestVoltage(consumed[a]))])

C3_RecordUsesLatch ==
    \A a \in Sensors :
        Len(records'[a]) > Len(records[a]) =>
            records'[a][Len(records'[a])].battery.voltage =
                Unwrap(LatestVoltage(consumed[a]))

C3_LatchNeverCleared ==
    \A a \in Sensors : last_voltage[a] # None => last_voltage'[a] # None

C3_LatestVoltageWins ==
    /\ []C3_LatchIsLatest
    /\ [][C3_RecordUsesLatch]_vars
    /\ [][C3_LatchNeverCleared]_vars

\* a worker has received two different Voltage samples, then a Meteo sample,
\* and its last record has the volts of the second one
C3_Witness ==
    \E a \in Sensors :
        /\ \E i, j \in DOMAIN consumed[a] :
              /\ i < j
              /\ IsVoltageMsg(consumed[a][i])
              /\ IsVoltageMsg(consumed[a][j])
              /\ consumed[a][i] # consumed[a][j]
              /\ \A k \in (j + 1)..Len(consumed[a]) : ~IsVoltageMsg(consumed[a][k])
              /\ \E k \in (j + 1)..Len(consumed[a]) : IsMeteoMsg(consumed[a][k])
        /\ records[a] # <<>>
        /\ records[a][Len(records[a])].battery.voltage
              = Unwrap(LatestVoltage(consumed[a]))

(***************************************************************************)
(* C4: a worker consumes the messages forwarded to its mailbox in the      *)
(* order they were forwarded, each once: what it has consumed, followed by *)
(* what waits in its mailbox, is what was forwarded (a worker that died    *)
(* has consumed a prefix of it).                                           *)
(***************************************************************************)
IsPrefix(s, t) == Len(s) <= Len(t) /\ SubSeq(t, 1, Len(s)) = s

C4_MailboxFifo ==
    \A a \in Sensors :
        /\ IsPrefix(consumed[a], forwarded[a])
        /\ wpc[a] # "dead" => forwarded[a] = consumed[a] \o mailbox[a]

\* two workers have each consumed three messages, one still has mail waiting
C4_Witness ==
    /\ Cardinality(Sensors) = 2
    /\ \A a \in Sensors : Len(consumed[a]) >= 3
    /\ \E a \in Sensors : Len(mailbox[a]) >= 2

(***************************************************************************)
(* C5: while the router's send to the full mailbox of one sensor is        *)
(* suspended, a device event of another sensor, whose mailbox has room,    *)
(* can be routed.                                                          *)
(***************************************************************************)
SendSuspended(a) ==
    /\ mainPc = "send"
    /\ CurAddr = a
    /\ ReceiverAlive(a)
    /\ Len(mailbox[a]) >= MailboxCapacity

C5_OtherSensorsNotAffected ==
    \A a, b \in Sensors :
        ( /\ a # b
          /\ SendSuspended(a)
          /\ device_events[b] # <<>>
          /\ ReceiverAlive(b)
          /\ Len(mailbox[b]) < MailboxCapacity
          /\ nDeviceEvents < MaxDeviceEvents )
        => ENABLED (\E i \in 1..MaxStreams, prop \in FleetProperties :
                       SelectDevice(b, i, prop))

(***************************************************************************)
(* C6: at most one worker is in a sink write at any time, and a worker in  *)
(* the write holds the guard of the client's mutex.                        *)
(***************************************************************************)
Writers == {a \in Sensors : wpc[a] = "write"}

C6_OneWriterAtATime ==
    /\ Cardinality(Writers) <= 1
    /\ \A a \in Writers : holder = Some(a)

\* one worker is in the write while the other waits for the guard
C6_Witness ==
    \E a, b \in Sensors : a # b /\ wpc[a] = "write" /\ wpc[b] = "lock"

(***************************************************************************)
(* C7: a decode failure on one entry does not abort the event: when the    *)
(* router has gone through the first n entries of a service-data event, it *)
(* has called send for exactly those of them that have the protocol header *)
(* and decode, in order; the sends went into the mailbox as long as the    *)
(* worker was alive.                                                       *)
(***************************************************************************)
RECURSIVE SendableMsgs(_)
SendableMsgs(entries) ==
    IF entries = <<>> THEN <<>>
    ELSE LET e == Head(entries) IN
         IF e.uuid0 = WEATHER_SAMPLE_UUID_HEADER /\ e.raw_sample.valid
         THEN <<e.raw_sample.elements>> \o SendableMsgs(Tail(entries))
         ELSE SendableMsgs(Tail(entries))

AttemptMsgs == [i \in DOMAIN attempts |-> attempts[i].msg]

C7_DecodeFailureDoesNotAbort ==
    mainPc \in {"send", "routed"} =>
        LET c == Unwrap(cur)
            entries == EntriesOf(c.prop)
        IN /\ c.idx <= Len(entries) + 1
           /\ mainPc = "routed" => c.idx = Len(entries) + 1
           /\ AttemptMsgs = SendableMsgs(SubSeq(entries, 1, c.idx - 1))
           /\ ReceiverAlive(c.addr) =>
                 /\ \A i \in DOMAIN attempts : attempts[i].ok
                 /\ Len(forwarded[c.addr]) >= Len(attempts)
                 /\ SubSeq(forwarded[c.addr],
                           Len(forwarded[c.addr]) - Len(attempts) + 1,
                           Len(forwarded[c.addr])) = AttemptMsgs

\* an event with failing entries first and last, and between decodable
\* entries, has been routed: every decodable entry was forwarded
C7_Witness ==
    /\ mainPc = "routed"
    /\ Unwrap(cur).prop = PropVMU
    /\ Len(attempts) = 3
    /\ \A i \in DOMAIN attempts : attempts[i].ok

(***************************************************************************)
(* C8: the loop breaks, and main returns Ok, exactly when the adapter      *)
(* stream and the set of device streams both have no more items: at the    *)
(* select, the break is possible then and only then; device events are     *)
(* taken after the adapter stream has ended, adapter events while the set  *)
(* of device streams is empty.                                             *)
(***************************************************************************)
StreamsExhausted == adapterEnded /\ NumStreams = 0

C8_BreakWhenBothExhausted ==
    /\ mainPc = "done" => StreamsExhausted
    /\ mainPc = "select" =>
          /\ StreamsExhausted <=> ENABLED Break
          /\ StreamsExhausted =>
                /\ ~ENABLED (\E e \in AdapterEvents : SelectAdapter(e))
                /\ ~ENABLED (\E a \in Sensors, i \in 1..MaxStreams,
                                prop \in DeviceProperties : SelectDevice(a, i, prop))
          /\ (adapterEnded /\ NumStreams > 0 /\ nDeviceEvents < MaxDeviceEvents) =>
                ENABLED (\E a \in Sensors, i \in 1..MaxStreams,
                            prop \in DeviceProperties : SelectDevice(a, i, prop))
          /\ (~adapterEnded /\ NumStreams = 0) =>
                ENABLED (\E e \in AdapterEvents : SelectAdapter(e))

\* main has returned Ok after the worker consumed messages
C8_Witness ==
    /\ mainPc = "done"
    /\ \E a \in Sensors : consumed[a] # <<>>

(***************************************************************************)
(* C9: a worker stops only when its mailbox is closed: as long as the      *)
(* senders exist (main is running) the worker is running.                  *)
(***************************************************************************)
C9_WorkerRunsWhileMailboxOpen ==
    MainRunning => \A a \in Sensors : ReceiverAlive(a)

(***************************************************************************)
(* C10: a failed sink write kills the worker that made it and nothing      *)
(* else: the step leaves the guard free and the other workers, their       *)
(* mailboxes and main as they were; no dead worker holds or waits for the  *)
(* guard, the guard is held by a worker in its write only, the first       *)
(* waiter gets a free guard, and a send to the mailbox of a dead worker    *)
(* completes (with an error) instead of blocking.                          *)
(***************************************************************************)
InWaitq(a) == \E i \in DOMAIN waitq : waitq[i] = a

C10_GuardSurvivesFailure ==
    /\ \A a \in Sensors : wpc[a] = "dead" => holder # Some(a) /\ ~InWaitq(a)
    /\ \A a \in Sensors : holder = Some(a) => wpc[a] = "write"
    /\ (holder = None /\ waitq # <<>>) => ENABLED Acquire(Head(waitq))
    /\ (mainPc = "send" /\ wpc[CurAddr] = "dead") => ENABLED SendClosed

C10_FailureIsLocal ==
    \A a \in Sensors :
        (wpc[a] = "write" /\ wpc'[a] = "dead") =>
            /\ holder' = None
            /\ UNCHANGED <<mainVars, waitq, device_events>>
            /\ \A b \in Sensors \ {a} :
                  /\ wpc'[b] = wpc[b]
                  /\ mailbox'[b] = mailbox[b]
                  /\ last_voltage'[b] = last_voltage[b]
                  /\ sample'[b] = sample[b]

C10_WriteFailureIsFatalToItsWorkerOnly ==
    /\ []C10_GuardSurvivesFailure
    /\ [][C10_FailureIsLocal]_vars

\* one worker is dead and a send to it was dropped; the loop is at its
\* select and the other worker, which has written before, is in a write
C10_Witness ==
    \E a, b \in Sensors :
        /\ a # b
        /\ wpc[a] = "dead"
        /\ dropped[a] > 0
        /\ mainPc = "select"
        /\ wpc[b] = "write"
        /\ written[b] # <<>>

(***************************************************************************)
(* C11: once the dispatch loop runs, no error but a failed sink write      *)
(* stops the process: main never returns an error, and the workers are     *)
(* cancelled only by the clean end of the loop.                            *)
(***************************************************************************)
C11_NoErrorStopsTheLoop ==
    /\ mainPc # "failed"
    /\ \A a \in Sensors : wpc[a] = "cancelled" => mainPc = "done"

(***************************************************************************)
(* C12: try_from returns Meteo exactly for the element lists that hold a   *)
(* temperature, a humidity and a battery level (a voltage besides them     *)
(* changes nothing), Voltage exactly for the other lists that hold a       *)
(* voltage, and Err for the rest; each field has the value of the last     *)
(* element of its type.  The worker that receives the list acts on that    *)
(* result: a record for Meteo, a new latch for Voltage, nothing for Err.   *)
(***************************************************************************)
C12_Classified(m) ==
    LET r == try_from(m)
        meteo == HasType(m, "TemperatureSmall") /\ HasType(m, "Humidity")
                     /\ HasType(m, "Battery")
        volt == HasType(m, "VoltageSmall")
    IN /\ r.tag = "Meteo" <=> meteo
       /\ r.tag = "Voltage" <=> (~meteo /\ volt)
       /\ r.tag = "Err" <=> (~meteo /\ ~volt)
       /\ meteo =>
             r = [tag |-> "Meteo",
                  temperature |-> Ratio(LastRaw(m, "TemperatureSmall"), 100),
                  humidity |-> Ratio(LastRaw(m, "Humidity"), 100),
                  battery_level |-> LastRaw(m, "Battery")]
       /\ (~meteo /\ volt) =>
             r = [tag |-> "Voltage",
                  battery_voltage |-> Ratio(LastRaw(m, "VoltageSmall"), 1000)]

C12_ClassifyByPresence ==
    \A a \in Sensors :
        /\ \A i \in DOMAIN consumed[a] : C12_Classified(consumed[a][i])
        /\ \A i \in DOMAIN mailbox[a] : C12_Classified(mailbox[a][i])
        /\ Len(consumed[a]) = 2 =>
              LET m == consumed[a][2]
                  meteo == HasType(m, "TemperatureSmall")
                               /\ HasType(m, "Humidity") /\ HasType(m, "Battery")
                  volt == HasType(m, "VoltageSmall")
              IN /\ Len(records[a]) = (IF meteo THEN 1 ELSE 0)
                 /\ meteo =>
                       /\ records[a][1].temperature
                             = Ratio(LastRaw(m, "TemperatureSmall"), 100)
                       /\ records[a][1].humidity
                             = Ratio(LastRaw(m, "Humidity"), 100)
                       /\ records[a][1].battery.level = LastRaw(m, "Battery")
                       /\ records[a][1].battery.voltage
                             = Ratio(LastRaw(consumed[a][1], "VoltageSmall"), 1000)
                 /\ last_voltage[a] =
                       Some([battery_voltage |->
                               IF ~meteo /\ volt
                               THEN Ratio(LastRaw(m, "VoltageSmall"), 1000)
                               ELSE Ratio(LastRaw(consumed[a][1], "VoltageSmall"),
                                          1000)])

\* the worker has received a list with a voltage and the three meteo fields
\* and made a record of it
C12_Witness ==
    \E a \in Sensors :
        /\ Len(consumed[a]) = 2
        /\ \A t \in ElementTypes \ {"PacketId"} : HasType(consumed[a][2], t)
        /\ Len(records[a]) = 1

\* the worker has received a list where a field type occurs twice with
\* different values, and made a record of it
C12_WitnessDuplicate ==
    \E a \in Sensors :
        /\ Len(consumed[a]) = 2
        /\ \E i, j \in DOMAIN consumed[a][2] :
              /\ i < j
              /\ consumed[a][2][i].type = consumed[a][2][j].type
              /\ consumed[a][2][i].raw # consumed[a][2][j].raw
        /\ Len(records[a]) = 1

(***************************************************************************)
(* C13: in dry-run no sink write is made or attempted: nothing is written, *)
(* no worker is at the lock or in a write (so none dies of one) and the    *)
(* guard is never taken.  The latch and the records are the same function  *)
(* of the messages received as in Live mode: the latch is the latest       *)
(* Voltage message, a record is made of each Meteo message received with a *)
(* latched voltage.                                                        *)
(***************************************************************************)
C13_DryRunWritesNothing ==
    dry_run =>
        /\ holder = None
        /\ waitq = <<>>
        /\ \A a \in Sensors :
              /\ written[a] = <<>>
              /\ sample[a] = None
              /\ wpc[a] \in {"recv", "cancelled"}
              /\ records[a] = ExpectedRecords(a, consumed[a])
              /\ last_voltage[a] =
                    IF LatestVoltage(consumed[a]) = None THEN None
                    ELSE Some([battery_voltage |->
                                 Unwrap(LatestVoltage(consumed[a]))])

\* dry-run: the worker has paired two Meteo samples and written nothing
C13_Witness ==
    /\ dry_run
    /\ \E a \in Sensors :
          /\ Len(records[a]) >= 2
          /\ written[a] = <<>>
          /\ wpc[a] = "recv"

(***************************************************************************)
(* C14: every stream of the SelectAll set is the subscription of a         *)
(* configured sensor.  When handle_adapter_evt returns Ok, the set has one *)
(* more stream, of that address, for DeviceAdded of a configured address,  *)
(* and is unchanged for any other adapter event; the mailboxes and the     *)
(* workers are as they were in both cases.                                 *)
(***************************************************************************)
C14_StreamsOfConfigured ==
    \A a \in DOMAIN device_events :
        device_events[a] # <<>> => a \in DOMAIN sensors_names

C14_AdapterEvtHandled ==
    (mainPc = "adapter" /\ mainPc' = "select") =>
        LET e == Unwrap(adapter_evt) IN
        /\ UNCHANGED <<mailbox, workerVars, histVars>>
        /\ IF e.kind = "DeviceAdded" /\ e.addr \in DOMAIN sensors_names
           THEN /\ Len(device_events'[e.addr]) = Len(device_events[e.addr]) + 1
                /\ SubSeq(device_events'[e.addr], 1, Len(device_events[e.addr]))
                      = device_events[e.addr]
                /\ \A a \in DOMAIN device_events \ {e.addr} :
                      device_events'[a] = device_events[a]
           ELSE device_events' = device_events

C14_OnlyConfiguredSubscribed ==
    /\ []C14_StreamsOfConfigured
    /\ [][C14_AdapterEvtHandled]_vars

\* a configured sensor is subscribed and has mail waiting, and the loop is
\* handling DeviceAdded of an address that is not configured
C14_Witness ==
    /\ mainPc = "adapter"
    /\ adapter_evt = Some([kind |-> "DeviceAdded", addr |-> AX])
    /\ \E a \in Sensors : device_events[a] # <<>> /\ mailbox[a] # <<>>

(***************************************************************************)
(* C15: DeviceRemoved changes nothing: handle_adapter_evt cannot fail on   *)
(* it, and when it has returned the set of streams, the mailboxes, the     *)
(* workers (their latched voltage included) and everything forwarded or    *)
(* recorded are as before.  A subscription in the set is served whatever   *)
(* adapter events came before: at the select, each of its streams can      *)
(* yield its next item to the router.                                      *)
(***************************************************************************)
C15_RemovedCannotFail ==
    (mainPc = "adapter" /\ Unwrap(adapter_evt).kind = "DeviceRemoved") =>
        /\ ENABLED HandleAdapterEvtOk
        /\ ~ENABLED HandleAdapterEvtErr

C15_SubscriptionServed ==
    (mainPc = "select" /\ nDeviceEvents < MaxDeviceEvents) =>
        \A a \in Sensors : \A i \in DOMAIN device_events[a] :
            ENABLED (\E prop \in DeviceProperties : SelectDevice(a, i, prop))

C15_RemovedHandled ==
    ( /\ mainPc = "adapter"
      /\ mainPc' = "select"
      /\ Unwrap(adapter_evt).kind = "DeviceRemoved" ) =>
        UNCHANGED <<cfgVars, cur, attempts, envVars, device_events, mailbox,
                    workerVars, histVars>>

C15_DeviceRemovedChangesNothing ==
    /\ []C15_RemovedCannotFail
    /\ []C15_SubscriptionServed
    /\ [][C15_RemovedHandled]_vars

\* the loop is handling DeviceRemoved of a subscribed sensor that has mail
\* waiting and a latched voltage, and one of its streams has an item ready;
\* the handling ends with all of these in place
C15_Witness ==
    \E a \in Sensors :
        /\ mainPc = "adapter"
        /\ adapter_evt = Some([kind |-> "DeviceRemoved", addr |-> a])
        /\ \E i \in DOMAIN device_events[a] : device_events[a][i] # <<>>
        /\ mailbox[a] # <<>>
        /\ last_voltage[a] # None
        /\ ENABLED ( /\ HandleAdapterEvtOk
                     /\ mainPc' = "select"
                     /\ device_events'[a] = device_events[a]
                     /\ mailbox'[a] = mailbox[a]
                     /\ last_voltage'[a] = last_voltage[a] )

(***************************************************************************)
(* C16: a message goes into the mailbox of a sensor only while the router  *)
(* works on a device event tagged with that sensor's address, and a        *)
(* worker's latch and records change only when it receives from its own    *)
(* mailbox.  So the latch and the records of a sensor are determined by    *)
(* what was forwarded for its own address: a sensor nothing was forwarded  *)
(* for has no latch and no record, whatever the others did.                *)
(***************************************************************************)
C16_OwnStateOnly ==
    \A b \in Sensors :
        /\ IsPrefix(consumed[b], forwarded[b])
        /\ records[b] = ExpectedRecords(b, consumed[b])
        /\ forwarded[b] = <<>> =>
              /\ mailbox[b] = <<>>
              /\ last_voltage[b] = None
              /\ records[b] = <<>>
              /\ written[b] = <<>>

C16_SendToOwnMailbox ==
    \A b \in Sensors :
        /\ (mailbox'[b] # mailbox[b] /\ Len(mailbox'[b]) > Len(mailbox[b])) =>
              /\ mainPc = "send"
              /\ Unwrap(cur).addr = b
              /\ \A c \in Sensors \ {b} :
                    mailbox'[c] = mailbox[c] /\ forwarded'[c] = forwarded[c]
        /\ forwarded'[b] # forwarded[b] =>
              mainPc = "send" /\ Unwrap(cur).addr = b
        /\ (last_voltage'[b] # last_voltage[b] \/ records'[b] # records[b]) =>
              /\ mailbox[b] # <<>>
              /\ consumed'[b] = Append(consumed[b], Head(mailbox[b]))

C16_RoutedByAddress ==
    /\ []C16_OwnStateOnly
    /\ [][C16_SendToOwnMailbox]_vars

\* both sensors are subscribed; one has a latch and a record and is in a
\* write, the other, for which no event came, has nothing
C16_Witness ==
    \E a, b \in Sensors :
        /\ a # b
        /\ device_events[a] # <<>>
        /\ device_events[b] # <<>>
        /\ Len(records[a]) >= 1
        /\ wpc[a] = "write"
        /\ forwarded[b] = <<>>
        /\ last_voltage[b] = None

(***************************************************************************)
(* C17: the router calls send only for entries of a service-data property  *)
(* that are under the protocol header and decode: an event with another    *)
(* property is routed without a send, the entry at a send is such an       *)
(* entry, every message sent is the content of such an entry, and when the *)
(* event is routed the sends are as many as these entries.                 *)
(***************************************************************************)
C17_Entries(prop) == IF prop.prop = "ServiceData" THEN prop.service_data ELSE <<>>

C17_Sendable(entry) ==
    entry.uuid0 = WEATHER_SAMPLE_UUID_HEADER /\ entry.raw_sample.valid

C17_SendsOnlyHeaderEntries ==
    mainPc \in {"send", "routed"} =>
        LET c == Unwrap(cur)
            entries == C17_Entries(c.prop)
            sendable == {i \in DOMAIN entries : C17_Sendable(entries[i])}
        IN /\ c.prop.prop # "ServiceData" => mainPc = "routed" /\ attempts = <<>>
           /\ mainPc = "send" => c.idx \in sendable
           /\ \A k \in DOMAIN attempts :
                 \E i \in sendable : attempts[k].msg = entries[i].raw_sample.elements
           /\ Len(attempts) = Cardinality({i \in sendable : i < c.idx})
           /\ mainPc = "routed" => Len(attempts) = Cardinality(sendable)

\* an event with a decodable entry under another key has been routed: the
\* sends are fewer than its decodable entries
C17_Witness ==
    /\ mainPc = "routed"
    /\ LET entries == C17_Entries(Unwrap(cur).prop) IN
          /\ \E i \in DOMAIN entries :
                /\ entries[i].uuid0 # WEATHER_SAMPLE_UUID_HEADER
                /\ entries[i].raw_sample.valid
          /\ attempts # <<>>
          /\ Len(attempts) <
                Cardinality({i \in DOMAIN entries : entries[i].raw_sample.valid})

\* an event with a property that is not service data has been routed,
\* after events that were forwarded: nothing was sent for it
C17_WitnessOtherProperty ==
    /\ mainPc = "routed"
    /\ Unwrap(cur).prop = Rssi
    /\ attempts = <<>>
    /\ forwarded[Unwrap(cur).addr] # <<>>

(***************************************************************************)
(* C18: with fair scheduling and sink writes that succeed, nothing waits   *)
(* for ever: a send suspended on a full mailbox is resumed, the message at *)
(* the head of a mailbox is received, a worker at the lock or in the write *)
(* gets its point written; and whenever a send is suspended some worker    *)
(* can take a step (the loop and the workers never block each other).      *)
(***************************************************************************)
C18_NoMutualBlocking ==
    \A a \in Sensors :
        SendSuspended(a) =>
            ENABLED (\E b \in Sensors : Recv(b) \/ Acquire(b) \/ WriteOk(b))

C18_SendResumed ==
    \A a \in DOMAIN TwoSensors : SendSuspended(a) ~> ~SendSuspended(a)

C18_MailConsumed ==
    \A a \in DOMAIN TwoSensors : \A n \in 0..(3 * MaxDeviceEvents) :
        (Len(consumed[a]) = n /\ mailbox[a] # <<>>) ~> (Len(consumed[a]) > n)

C18_PairedIsWritten ==
    \A a \in DOMAIN TwoSensors : \A n \in 0..MaxDeviceEvents :
        (Len(written[a]) = n /\ sample[a] # None) ~> (Len(written[a]) > n)

C18_NothingWaitsForEver ==
    /\ []C18_NoMutualBlocking
    /\ C18_SendResumed
    /\ C18_MailConsumed
    /\ C18_PairedIsWritten

(***************************************************************************)
(* C19: the select loses nothing.  An item that is ready in a device       *)
(* stream stays there while the adapter branch is served, and leaves its   *)
(* stream only by being handed, alone, to the router.  Every item taken    *)
(* is routed once: when the loop is between two events, the sends made     *)
(* (into a mailbox, or refused by the closed channel of a dead worker) are *)
(* the decodable header entries of the items taken so far, each once.      *)
(***************************************************************************)
RECURSIVE C19_SumOver(_, _)
C19_SumOver(f, S) ==
    IF S = {} THEN 0
    ELSE LET x == CHOOSE y \in S : TRUE IN f[x] + C19_SumOver(f, S \ {x})

\* items ready in the streams of the set
C19_Ready(streams) ==
    C19_SumOver([a \in DOMAIN streams |->
                    C19_SumOver([i \in DOMAIN streams[a] |-> Len(streams[a][i])],
                                DOMAIN streams[a])],
                DOMAIN streams)

\* sends made so far, accepted or refused
C19_Sends ==
    C19_SumOver([a \in Sensors |-> Len(forwarded[a]) + dropped[a]], Sensors)

\* decodable header entries of an item of the fleet's streams
C19_PerItem(prop) == Len(SendableMsgs(C17_Entries(prop)))

C19_EachEntrySentOnce ==
    /\ \A p \in FleetProperties :
          /\ mainPc \notin {"send", "routed"} =>
                C19_Sends = nDeviceEvents * C19_PerItem(p)
          /\ mainPc \in {"send", "routed"} =>
                C19_Sends = (nDeviceEvents - 1) * C19_PerItem(p) + Len(attempts)
          /\ mainPc = "routed" => Len(attempts) = C19_PerItem(p)
    /\ \A a \in Sensors : dropped[a] > 0 => ~ReceiverAlive(a)

C19_NoItemLost ==
    /\ (mainPc = "adapter" \/ mainPc' = "adapter") =>
          /\ C19_Ready(device_events') = C19_Ready(device_events)
          /\ \A a \in DOMAIN device_events : \A i \in DOMAIN device_events[a] :
                /\ i \in DOMAIN device_events'[a]
                /\ device_events'[a][i] = device_events[a][i]
    /\ C19_Ready(device_events') < C19_Ready(device_events) =>
          /\ C19_Ready(device_events') = C19_Ready(device_events) - 1
          /\ mainPc = "select"
          /\ nDeviceEvents' = nDeviceEvents + 1
          /\ cur' # None
          /\ \E i \in DOMAIN device_events[Unwrap(cur').addr] :
                /\ device_events[Unwrap(cur').addr][i] # <<>>
                /\ Unwrap(cur').prop = Head(device_events[Unwrap(cur').addr][i])
    /\ nDeviceEvents' # nDeviceEvents =>
          /\ nDeviceEvents' = nDeviceEvents + 1
          /\ cur' # None
          /\ attempts' = <<>>

C20_SingleSubscription ==
    \A a \in Sensors :
        /\ Len(device_events[a]) <= 1
        /\ \A i \in DOMAIN device_events[a] : device_events[a][i] = <<>>

====
